---- MODULE Spec2Model ----
(***************************************************************************)
(* pliers/extractors/base.py: ExtractorResult.to_df and merge_results.     *)
(*                                                                         *)
(* A DataFrame is a record [columns, rows, index, dtypes, multi]: the      *)
(* column labels in order, the rows in order (each a function from column  *)
(* label to cell), the row labels in the same order, the dtype of each     *)
(* column and whether the column axis is a MultiIndex.  A string is held   *)
(* as the list of its '#'-separated parts ("A#score" is <<"A", "score">>), *)
(* so that e + '#' + f is the concatenation of two lists and s.split('#')  *)
(* is the list itself.                                                     *)
(* A cell is a number (a fraction n/d), NaN, None or a string.             *)
(* The bool-or-string options are held as "True", "False", "auto", ...     *)
(***************************************************************************)
EXTENDS Integers, Sequences, FiniteSets, TLC

VARIABLES results, opts, pc, outcome, table, outcome2, table2, df

vars == <<results, opts, pc, outcome, table, outcome2, table2, df>>

-----------------------------------------------------------------------------
(* Cells *)

NaN == [t |-> "nan"]

None == [t |-> "none"]

Frac(n, d) == [t |-> "num", n |-> n, d |-> d]

Num(n) == Frac(n, 1)

Name(parts) == [t |-> "str", s |-> parts]

Str(s) == Name(<<s>>)

isnull(v) == v.t \in {"nan", "none"}

isfinite(v) == v.t = "num"

\* Series.astype(str) of a float: 1.0 -> '1.0', nan -> 'nan'
astype_str(v) == IF v.t = "num" THEN ToString(v.n) \o ".0" ELSE "nan"

-----------------------------------------------------------------------------
(* Sequences *)

Range(s) == {s[i] : i \in DOMAIN s}

IndexOf(s, x) == CHOOSE i \in DOMAIN s : s[i] = x

Without(s, drop) == SelectSeq(s, LAMBDA x : x \notin drop)

\* a scalar (held as a one-element list) broadcasts to every row
At(vec, i) == IF Len(vec) = 1 THEN vec[1] ELSE vec[i]

C(s) == <<s>>

TimingCols == <<C("onset"), C("order"), C("duration")>>

-----------------------------------------------------------------------------
(* DataFrame primitives *)

\* a frame with the default RangeIndex 0 .. n-1 as row labels
DataFrame(columns, rows, dtypes, multi) ==
    [columns |-> columns, rows |-> rows,
     index |-> [i \in DOMAIN rows |-> i - 1],
     dtypes |-> dtypes, multi |-> multi]

NoTable == DataFrame(<<>>, <<>>, <<>>, FALSE)

\* df[c] = v for a scalar v: appends the column c
assign(d, c, v, dtype) ==
    DataFrame(d.columns \o <<c>>,
              [i \in DOMAIN d.rows |->
                  [x \in Range(d.columns) \cup {c} |->
                      IF x = c THEN v ELSE d.rows[i][x]]],
              [x \in Range(d.columns) \cup {c} |->
                  IF x = c THEN dtype ELSE d.dtypes[x]],
              d.multi)

\* df.drop(cols, axis=1)
drop(d, cols) ==
    LET keep == Without(d.columns, cols)
    IN DataFrame(keep,
                 [i \in DOMAIN d.rows |-> [x \in Range(keep) |-> d.rows[i][x]]],
                 [x \in Range(keep) |-> d.dtypes[x]],
                 d.multi)

\* pd.concat(dfs, axis=0).reset_index(drop=True) of frames with equal columns
RECURSIVE concat(_)
concat(dfs) ==
    IF Len(dfs) = 1 THEN dfs[1]
    ELSE LET rest == concat(Tail(dfs))
         IN DataFrame(dfs[1].columns, dfs[1].rows \o rest.rows,
                      dfs[1].dtypes, dfs[1].multi)

\* groupby(index).cumcount(): the running count within each group
cumcount(index) ==
    [i \in DOMAIN index |->
        Cardinality({j \in 1..(i - 1) : index[j] = index[i]})]

-----------------------------------------------------------------------------
(* ExtractorResult.to_df *)

\* features, or feature_1 .. feature_k when features is None (held as <<>>)
Features(r) ==
    IF r.features = <<>>
    THEN [i \in 1..Len(r.data[1]) |-> C("feature_" \o ToString(i))]
    ELSE r.features

Ok(d) == [ok |-> TRUE, df |-> d, error |-> "none"]

Raise(e) == [ok |-> FALSE, df |-> NoTable, error |-> e]

\* pd.Series(onsets).astype(str) + '_' + pd.Series(durations).astype(str)
index_key(r) ==
    [i \in DOMAIN r.onsets |->
        astype_str(r.onsets[i]) \o "_" \o astype_str(r.durations[i])]

\* insert_object_id with 'auto' treated as True
insert_object_id_always(object_id, index) == object_id # "False"

\* object_id is True or (object_id == 'auto' and len(set(index)) > 1)
insert_object_id(object_id, index) ==
    /\ object_id # "False"
    /\ \/ object_id = "True"
       \/ object_id = "auto" /\ Cardinality(Range(index)) > 1

\* np.arange(len(df)) if len(index) == 1 else df.groupby(index).cumcount()
object_ids(n, index) ==
    IF Len(index) = 1 THEN [i \in 1..n |-> i - 1] ELSE cumcount(index)

\* timing is True or (timing == 'auto' and (a finite duration or order))
insert_timing(timing, r) ==
    \/ timing = "True"
    \/ /\ timing = "auto"
       /\ \/ \E i \in DOMAIN r.durations : isfinite(r.durations[i])
          \/ \E i \in DOMAIN r.orders : isfinite(r.orders[i])

\* the cell of row i of the Result under column c of the wide frame
cell(r, i, c) ==
    CASE c = C("onset") -> At(r.onsets, i)
      [] c = C("order") -> At(r.orders, i)
      [] c = C("duration") -> At(r.durations, i)
      [] c = C("object_id") -> Num(object_ids(Len(r.data), index_key(r))[i])
      [] OTHER -> r.data[i][IndexOf(Features(r), c)]

\* pd.DataFrame(self.data, columns=features) with the object_id column and
\* then duration, order and onset inserted at the front
wide_frame(r, columns) ==
    DataFrame(columns,
              [i \in DOMAIN r.data |-> [c \in Range(columns) |-> cell(r, i, c)]],
              [c \in Range(columns) |->
                  IF c = C("object_id") THEN "int64" ELSE "float64"],
              FALSE)

\* df.melt(index_cols, var_name='feature'): one row per row and per column
\* that is no index column, column after column
melt(d, index_cols) ==
    LET n == Len(d.rows)
        value_vars == Without(d.columns, Range(index_cols))
        columns == index_cols \o <<C("feature"), C("value")>>
    IN DataFrame(
          columns,
          [p \in 1..(n * Len(value_vars)) |->
              [c \in Range(columns) |->
                  CASE c = C("feature") -> Name(value_vars[((p - 1) \div n) + 1])
                    [] c = C("value") ->
                          d.rows[((p - 1) % n) + 1][value_vars[((p - 1) \div n) + 1]]
                    [] OTHER -> d.rows[((p - 1) % n) + 1][c]]],
          [c \in Range(columns) |->
              CASE c = C("feature") -> "object"
                [] c = C("value") -> "float64"
                [] OTHER -> d.dtypes[c]],
          FALSE)

\* df.columns = pd.MultiIndex.from_product([[name], df.columns])
from_product(d, name) ==
    DataFrame([k \in DOMAIN d.columns |-> name \o d.columns[k]],
              [i \in DOMAIN d.rows |->
                  [c \in {name \o x : x \in Range(d.columns)} |->
                      d.rows[i][SubSeq(c, Len(name) + 1, Len(c))]]],
              [c \in {name \o x : x \in Range(d.columns)} |->
                  d.dtypes[SubSeq(c, Len(name) + 1, Len(c))]],
              TRUE)

\* the extractor name as a column (long) or as a column level (wide)
with_extractor_name(d, r, format, extractor_name) ==
    IF ~extractor_name THEN d
    ELSE IF format = "long"
    THEN assign(d, C("extractor"), Name(r.extractor), "object")
    ELSE from_product(d, r.extractor)

\* the five metadata columns
with_metadata(d, r) ==
    assign(assign(assign(assign(assign(d,
        C("stim_name"), r.stim.name, "object"),
        C("class"), r.stim.class, "object"),
        C("filename"), r.stim.filename, "object"),
        C("history"),
            IF r.stim.history = None THEN Str("") ELSE r.stim.history, "object"),
        C("source_file"), r.history.source_file, "object")

to_df(r, timing, metadata, format, extractor_name, object_id) ==
    LET id_cols == IF insert_object_id(object_id, index_key(r))
                   THEN <<C("object_id")>> ELSE <<>>
        t_cols == IF insert_timing(timing, r) THEN TimingCols ELSE <<>>
        wide == wide_frame(r, t_cols \o id_cols \o Features(r))
    IN IF metadata /\ r.history = None
       THEN Raise("AttributeError")   \* self.history.to_df() on None
       ELSE IF metadata
       THEN Ok(with_metadata(
                  with_extractor_name(
                      IF format = "long" THEN melt(wide, id_cols \o t_cols)
                      ELSE wide,
                      r, format, extractor_name),
                  r))
       ELSE Ok(with_extractor_name(
                  IF format = "long" THEN melt(wide, id_cols \o t_cols)
                  ELSE wide,
                  r, format, extractor_name))

-----------------------------------------------------------------------------
(* Ordering of cells as pandas sorts them *)

\* the strings of the model in lexicographic (code point) order
StrOrder == <<"", "A", "B", "ImageStim", "PlAcEholdER", "VideoStim", "f.mp4",
              "feature_1", "feature_2", "h", "s1", "s2", "score", "src.jpg",
              "value">>

StrRank(s) == IndexOf(StrOrder, s)

\* '#' sorts before every letter and digit, so a string is smaller exactly
\* when its list of parts is lexicographically smaller
RECURSIVE PartsLt(_, _)
PartsLt(a, b) ==
    IF a = <<>> THEN b # <<>>
    ELSE IF b = <<>> THEN FALSE
    ELSE IF a[1] = b[1] THEN PartsLt(Tail(a), Tail(b))
    ELSE StrRank(a[1]) < StrRank(b[1])

\* non-missing cells: numbers by value, numbers before strings
CellLt(a, b) ==
    CASE a.t = "num" /\ b.t = "num" -> a.n * b.d < b.n * a.d
      [] a.t = "num" /\ b.t = "str" -> TRUE
      [] a.t = "str" /\ b.t = "num" -> FALSE
      [] OTHER -> PartsLt(a.s, b.s)

\* ascending with na_position='last'
SortLt(a, b) ==
    IF isnull(a) THEN FALSE
    ELSE IF isnull(b) THEN TRUE
    ELSE CellLt(a, b)

SortEq(a, b) == (isnull(a) /\ isnull(b)) \/ a = b

RECURSIVE KeyLt(_, _, _)
KeyLt(r1, r2, key) ==
    IF key = <<>> THEN FALSE
    ELSE IF SortLt(r1[key[1]], r2[key[1]]) THEN TRUE
    ELSE IF SortLt(r2[key[1]], r1[key[1]]) THEN FALSE
    ELSE KeyLt(r1, r2, Tail(key))

\* the permutation that sorts rows by key, ties in their given order
Argsort(rows, key) ==
    LET rank(i) == Cardinality({j \in DOMAIN rows :
                        \/ KeyLt(rows[j], rows[i], key)
                        \/ ~KeyLt(rows[i], rows[j], key) /\ j < i})
    IN [p \in DOMAIN rows |-> CHOOSE i \in DOMAIN rows : rank(i) = p - 1]

\* sort_values that leaves the rows where they are
sort_values_unsorted(d, key) == d

\* df.sort_values(key): the rows move together with their labels
sort_values(d, key) ==
    LET perm == Argsort(d.rows, key)
    IN [d EXCEPT !.rows = [p \in DOMAIN d.rows |-> d.rows[perm[p]]],
                 !.index = [p \in DOMAIN d.rows |-> d.index[perm[p]]]]

\* df.reset_index(drop=True)
reset_index(d) == [d EXCEPT !.index = [i \in DOMAIN d.rows |-> i - 1]]

\* the distinct elements of a set of strings (lists of parts), ascending
SortedNames(S) ==
    [p \in 1..Cardinality(S) |->
        CHOOSE x \in S : Cardinality({y \in S : PartsLt(y, x)}) = p - 1]

-----------------------------------------------------------------------------
(* Aggregation *)

RECURSIVE gcd(_, _)
gcd(a, b) == IF b = 0 THEN a ELSE gcd(b, a % b)

RECURSIVE SumN(_)
SumN(vals) == IF vals = <<>> THEN 0 ELSE vals[1].n + SumN(Tail(vals))

\* arithmetic mean of a non-empty list of whole numbers, as a reduced fraction
mean(vals) ==
    LET s == SumN(vals)
        g == gcd(Len(vals), s)
    IN Frac(s \div g, Len(vals) \div g)

first(vals) == vals[1]

aggregate(aggfunc, vals) ==
    IF aggfunc = "mean" THEN mean(vals) ELSE first(vals)

is_numeric_dtype(dtype) == dtype \in {"float64", "int64"}

-----------------------------------------------------------------------------
(* merge_results *)

PlAcEholdER == Str("PlAcEholdER")

\* the candidate index columns of the wide pivot
IndCols == {C("stim_name"), C("onset"), C("order"), C("duration"),
            C("object_id"), C("class"), C("filename"), C("history"),
            C("source_file")}

\* Orders in which list(set) can yield the candidates: the order depends on
\* the string hashes, which the interpreter draws per process.
HashOrders ==
    { <<C("object_id"), C("onset"), C("order"), C("duration"), C("stim_name"),
        C("class"), C("filename"), C("history"), C("source_file")>>,
      <<C("source_file"), C("duration"), C("history"), C("onset"),
        C("filename"), C("object_id"), C("class"), C("order"),
        C("stim_name")>> }

\* list(ind_cols & set(data.columns))
ind_cols_list(columns, hashorder) ==
    SelectSeq(hashorder, LAMBDA c : c \in IndCols /\ c \in Range(columns))

\* prepend that leaves the feature name as it is
prepend_dropped(extractor, feature) == feature

\* extractor + '#' + feature
prepend(extractor, feature) == extractor \o feature

\* fillna that fills nothing
fillna_skipped(d, cols, value) == d

\* data[cols] = data[cols].fillna(value): a column that held a missing
\* value becomes an object column
fillna(d, cols, value) ==
    [d EXCEPT
        !.rows = [i \in DOMAIN d.rows |->
                     [c \in Range(d.columns) |->
                         IF c \in Range(cols) /\ isnull(d.rows[i][c])
                         THEN value ELSE d.rows[i][c]]],
        !.dtypes = [c \in Range(d.columns) |->
                       IF /\ c \in Range(cols)
                          /\ \E i \in DOMAIN d.rows : isnull(d.rows[i][c])
                       THEN "object" ELSE d.dtypes[c]]]

\* replace that replaces nothing
replace_skipped(d, cols, value) == d

\* data[cols] = data[cols].replace(value, np.nan)
replace(d, cols, value) ==
    [d EXCEPT
        !.rows = [i \in DOMAIN d.rows |->
                     [c \in Range(d.columns) |->
                         IF c \in Range(cols) /\ d.rows[i][c] = value
                         THEN NaN ELSE d.rows[i][c]]]]

\* data[cols] = data[cols].astype(dict(zip(cols, dtypes)))
astype(d, cols, dtypes) ==
    [d EXCEPT
        !.dtypes = [c \in Range(d.columns) |->
                       IF c \in Range(cols) THEN dtypes[c] ELSE d.dtypes[c]]]

\* the rows of d that groupby keeps: no missing value in a key
valid_rows(d, index) ==
    SelectSeq(d.rows, LAMBDA row : \A c \in Range(index) : ~isnull(row[c]))

\* the distinct keys of the rows, ascending
sorted_keys(rows, index) ==
    LET keys == {[c \in Range(index) |-> rows[i][c]] : i \in DOMAIN rows}
    IN [p \in 1..Cardinality(keys) |->
           CHOOSE k \in keys :
               Cardinality({x \in keys : KeyLt(x, k, index)}) = p - 1]

\* the aggregate of the values of the rows of key k and feature f, NaN when
\* there is none
pivot_cell(rows, index, k, f, aggfunc) ==
    LET vals == SelectSeq(rows,
                    LAMBDA row : /\ \A c \in Range(index) : row[c] = k[c]
                                 /\ row[C("feature")].s = f)
    IN IF vals = <<>> THEN NaN
       ELSE aggregate(aggfunc, [i \in DOMAIN vals |-> vals[i][C("value")]])

\* the pivoted frame of the kept rows
pivot_frame(d, rows, index, lead, keyrows, features, aggfunc) ==
    DataFrame(lead \o features,
              [p \in DOMAIN keyrows |->
                  [c \in Range(lead \o features) |->
                      IF c \in Range(index) THEN keyrows[p][c]
                      ELSE IF c \in Range(lead) THEN Str("value")
                      ELSE pivot_cell(rows, index, keyrows[p], c, aggfunc)]],
              [c \in Range(lead \o features) |->
                  IF c \in Range(index) THEN d.dtypes[c]
                  ELSE IF c \in Range(lead) THEN "object"
                  ELSE "float64"],
              FALSE)

\* data.pivot_table(index=index, columns='feature', values='value',
\*                  aggfunc=aggfunc).reset_index()
\* groupby leaves out every row that has a missing value in a key; the groups
\* and the feature columns come out sorted.  With no index column the one
\* aggregated row is labelled 'value' and reset_index makes that a column.
pivot_table(d, index, aggfunc) ==
    pivot_frame(d, valid_rows(d, index), index,
                IF index = <<>> THEN <<C("index")>> ELSE index,
                sorted_keys(valid_rows(d, index), index),
                SortedNames({d.rows[i][C("feature")].s :
                    i \in {j \in DOMAIN d.rows :
                              \A c \in Range(index) : ~isnull(d.rows[j][c])}}),
                aggfunc)

Returns(d) == [outcome |-> "table", table |-> d]

Fails(e) == [outcome |-> e, table |-> NoTable]

\* True -> 'prepend', False -> 'drop'
normalize_names(extractor_names) ==
    CASE extractor_names = "True" -> "prepend"
      [] extractor_names = "False" -> "drop"
      [] OTHER -> extractor_names

\* 'auto' -> True for the rendering of each Result
normalize_auto(option) == IF option = "auto" THEN "True" ELSE option

\* drop object_id when object_id == 'auto' and the column has one value
drop_constant_object_id(data, object_id) ==
    IF /\ object_id = "auto"
       /\ Cardinality({data.rows[i][C("object_id")] : i \in DOMAIN data.rows}) = 1
    THEN drop(data, {C("object_id")}) ELSE data

\* data['feature'] = data['extractor'] + '#' + data['feature']
prepend_names(data, names) ==
    IF names \in {"prepend", "multi"}
    THEN [data EXCEPT !.rows = [i \in DOMAIN data.rows |->
             [data.rows[i] EXCEPT ![C("feature")] =
                 Name(prepend(data.rows[i][C("extractor")].s,
                              data.rows[i][C("feature")].s))]]]
    ELSE data

\* drop the extractor column unless extractor_names == 'column'
drop_extractor(data, names) ==
    IF names # "column" THEN drop(data, {C("extractor")}) ELSE data

\* 'mean' for a numeric value column, 'first' otherwise, unless given
default_aggfunc(data, aggfunc) ==
    IF aggfunc = "None"
    THEN IF is_numeric_dtype(data.dtypes[C("value")]) THEN "mean" ELSE "first"
    ELSE aggfunc

\* the wide pivot on the index columns ind_cols
wide(data, ind_cols, aggfunc) ==
    astype(replace(pivot_table(fillna(data, ind_cols, PlAcEholdER),
                               ind_cols, default_aggfunc(data, aggfunc)),
                   ind_cols, PlAcEholdER),
           ind_cols, data.dtypes)

pivot(data, format, aggfunc, hashorder) ==
    IF format = "wide"
    THEN wide(data, ind_cols_list(data.columns, hashorder), aggfunc)
    ELSE data

\* drop the timing columns when timing == 'auto' and every onset is missing
prune_timing(data, timing) ==
    IF /\ timing = "auto"
       /\ C("onset") \in Range(data.columns)
       /\ \A i \in DOMAIN data.rows : isnull(data.rows[i][C("onset")])
    THEN drop(data, Range(TimingCols)) ELSE data

\* sort by (onset, order, duration) when there is an onset column
sort_by_timing(data) ==
    IF C("onset") \in Range(data.columns)
    THEN reset_index(sort_values(data, TimingCols)) ELSE data

\* the last step: 'multi' is an error for long format, and otherwise
\* MultiIndex.from_tuples([c.split('#') for c in data.columns])
finish(data, names, format) ==
    IF names = "multi"
    THEN IF format = "long"
         THEN Fails("ValueError: Invalid extractor_names value")
         ELSE Returns([data EXCEPT !.multi = TRUE])
    ELSE Returns(data)

\* the long rendering of every Result
render(rs, timing, metadata, object_id) ==
    [i \in DOMAIN rs |->
        to_df(rs[i], normalize_auto(timing), metadata, "long", TRUE,
              normalize_auto(object_id))]

\* the steps of merge_results on the rendered Results
merge(dfs, format, timing, names, object_id, aggfunc, hashorder) ==
    IF \E i \in DOMAIN dfs : ~dfs[i].ok
    THEN Fails("AttributeError")
    ELSE IF dfs = <<>>
    THEN Fails("ValueError: No objects to concatenate")
    ELSE finish(
            sort_by_timing(
              prune_timing(
                pivot(
                  drop_extractor(
                    prepend_names(
                      drop_constant_object_id(
                        concat([i \in DOMAIN dfs |-> dfs[i].df]),
                        object_id),
                      names),
                    names),
                  format, aggfunc, hashorder),
                timing)),
            names, format)

merge_results(rs, format, timing, metadata, extractor_names, object_id, aggfunc, hashorder) ==
    merge(render(rs, timing, metadata, object_id), format, timing,
          normalize_names(extractor_names), object_id, aggfunc, hashorder)

-----------------------------------------------------------------------------
(* ExtractorResult *)

\* ExtractorResult.__init__: an argument left at None is <<>>, a scalar is a
\* one-element list; a timing argument left out is taken from the stim, and
\* is NaN when the stim has none either
ExtractorResult(data, stim, extractor, features, onsets, durations, orders) ==
    LET default(arg, inherited) ==
            IF arg # <<>> THEN arg
            ELSE IF inherited # None THEN <<inherited>> ELSE <<NaN>>
    IN [data |-> data, stim |-> stim, extractor |-> extractor,
        features |-> features, history |-> None,
        onsets |-> default(onsets, stim.onset),
        durations |-> default(durations, stim.duration),
        orders |-> default(orders, stim.order)]

\* the history setter
set_history(r, history) == [r EXCEPT !.history = history]

-----------------------------------------------------------------------------
(* Inputs *)

MaxResults == 2

MaxRows == 2

Extractors == {<<"A">>, <<"B">>}

Onsets == {NaN, Num(1), Num(2)}

Orders == {NaN, Num(0)}

Durations == {NaN, Num(1)}

Timings == [onset : Onsets, order : Orders, duration : Durations]

Formats == {"wide", "long"}

Tristate == {"True", "False", "auto"}

ExtractorNames == {"True", "False", "prepend", "drop", "column", "multi"}

Aggfuncs == {"None", "first"}

Options == [format : Formats, timing : Tristate, metadata : BOOLEAN,
            extractor_names : ExtractorNames, object_id : Tristate,
            aggfunc : Aggfuncs]

History == [source_file |-> Str("src.jpg")]

\* a stim without a file or timing of its own, and a stim cut from a video
ImageStim == [name |-> Str("s1"), class |-> Str("ImageStim"),
              filename |-> None, history |-> None,
              onset |-> None, duration |-> None, order |-> None]

VideoStim == [name |-> Str("s2"), class |-> Str("VideoStim"),
              filename |-> Str("f.mp4"), history |-> Str("h"),
              onset |-> Num(1), duration |-> Num(1), order |-> Num(0)]

\* the data of a Result of n rows and k features: row i holds v + i - 1 in
\* every column
Data(n, k, v) == [i \in 1..n |-> [j \in 1..k |-> Num(v + i - 1)]]

SeqsUpTo(S, n) == UNION {[1..m -> S] : m \in 0..n}

\* one-row Results of either extractor on the video stim, their feature
\* named 'score' (extractor A scores 1, extractor B scores 2), with or
\* without a history attached
ScoreResults ==
    {IF h THEN set_history(r, History) ELSE r :
        h \in BOOLEAN,
        r \in {ExtractorResult(Data(1, 1, IF e = <<"A">> THEN 1 ELSE 2),
                               VideoStim, e, <<C("score")>>, <<>>, <<>>, <<>>) :
                  e \in Extractors}}

\* a Result of extractor A on the image stim with unnamed features and the
\* timing ts: one scalar triple, or one triple per row
Timed(n, k, ts) ==
    set_history(
        ExtractorResult(Data(n, k, 1), ImageStim, <<"A">>, <<>>,
                        [i \in DOMAIN ts |-> ts[i].onset],
                        [i \in DOMAIN ts |-> ts[i].duration],
                        [i \in DOMAIN ts |-> ts[i].order]),
        History)

\* Results of 1 .. MaxRows rows: the timing is a scalar triple, or onsets and
\* durations are given per row (all rows of one order)
TimedResults ==
    UNION {{Timed(n, 1, ts) :
              ts \in [1..1 -> Timings] \cup
                     {x \in [1..n -> Timings] :
                         \A i \in 1..n : x[i].order = x[1].order}} :
           n \in 1..MaxRows}

\* one-row Results of two features, of any timing
OneRowResults == {Timed(1, 2, <<t>>) : t \in Timings}

SingleOptions ==
    {o \in Options : /\ o.aggfunc = "None"
                     /\ o.extractor_names \in {"prepend", "drop"}}

MultiOptions ==
    {o \in Options : /\ o.aggfunc = "None"
                     /\ o.extractor_names \notin {"True", "False"}
                     /\ o.timing # "False"
                     /\ o.object_id # "False"
                     /\ o.metadata => o.extractor_names = "drop"}

-----------------------------------------------------------------------------
(* The calls *)

TypeOK ==
    /\ pc \in {"start", "merged", "again", "rendered"}
    /\ opts \in Options

InitVars ==
    /\ pc = "start"
    /\ outcome = "none" /\ table = NoTable
    /\ outcome2 = "none" /\ table2 = NoTable
    /\ df = [i |-> 0, extractor_name |-> FALSE, ok |-> FALSE,
             df |-> NoTable, error |-> "none"]

\* every option, on up to MaxResults of the 'score' Results
Init ==
    /\ results \in SeqsUpTo(ScoreResults, MaxResults)
    /\ opts \in Options
    /\ InitVars

\* merge_results(results, **opts); the order of the index columns is the one
\* the hashes of the running interpreter give
MergeResults ==
    /\ pc = "start"
    /\ \E hashorder \in HashOrders :
          LET ret == merge_results(results, opts.format, opts.timing,
                         opts.metadata, opts.extractor_names, opts.object_id,
                         opts.aggfunc, hashorder)
          IN outcome' = ret.outcome /\ table' = ret.table
    /\ pc' = "merged"
    /\ UNCHANGED <<results, opts, outcome2, table2, df>>

\* the same call once more, in this or in another interpreter process
MergeAgain ==
    /\ pc = "merged"
    /\ \E hashorder \in HashOrders :
          LET ret == merge_results(results, opts.format, opts.timing,
                         opts.metadata, opts.extractor_names, opts.object_id,
                         opts.aggfunc, hashorder)
          IN outcome2' = ret.outcome /\ table2' = ret.table
    /\ pc' = "again"
    /\ UNCHANGED <<results, opts, outcome, table, df>>

\* results[i].to_df(timing, metadata, format, extractor_name, object_id)
ToDf(i) ==
    /\ pc = "start"
    /\ \E extractor_name \in BOOLEAN :
          LET ret == to_df(results[i], opts.timing, opts.metadata, opts.format,
                           extractor_name, opts.object_id)
          IN df' = [i |-> i, extractor_name |-> extractor_name, ok |-> ret.ok,
                    df |-> ret.df, error |-> ret.error]
    /\ pc' = "rendered"
    /\ UNCHANGED <<results, opts, outcome, table, outcome2, table2>>

Next ==
    \/ MergeResults
    \/ MergeAgain
    \/ \E i \in DOMAIN results : ToDf(i)

Spec == Init /\ [][Next]_vars

\* one Result of up to MaxRows rows, rendered and merged on its own
InitSingle ==
    /\ results \in {<<r>> : r \in TimedResults}
    /\ opts \in SingleOptions
    /\ InitVars

SpecSingle == InitSingle /\ [][Next]_vars

\* up to MaxResults one-row Results with any timing, in any order
InitMulti ==
    /\ results \in SeqsUpTo(OneRowResults, MaxResults) \ {<<>>}
    /\ opts \in MultiOptions
    /\ InitVars

SpecMulti == InitMulti /\ [][Next]_vars

-----------------------------------------------------------------------------
(* Properties *)

ConfigError == "ValueError: Invalid extractor_names value"

Called == outcome # "none"

Rendered == df.i # 0

names_mode ==
    CASE opts.extractor_names = "True" -> "prepend"
      [] opts.extractor_names = "False" -> "drop"
      [] OTHER -> opts.extractor_names

\* the index columns and the feature columns of a returned wide table
IndexColumns(d) == {c \in Range(d.columns) : c \in IndCols}

FeatureColumns(d) == {c \in Range(d.columns) : c \notin IndCols \cup {C("index")}}

\* a missing value, whether None or NaN
Missing(v) == IF isnull(v) THEN NaN ELSE v

\* C1: merge_results with format='wide' and extractor_names='column' never
\* returns a table: whatever the Results and the other options, the call
\* fails (with the configuration error).
C1_WideColumnNeverReturns ==
    (Called /\ opts.format = "wide" /\ opts.extractor_names = "column")
        => outcome # "table"

\* C2: merge_results with format='long' and extractor_names='multi' always
\* ends in the configuration error, whatever the Results and the other
\* options: it returns no table and fails in no other way.
C2_LongMultiAlwaysConfigError ==
    (Called /\ opts.format = "long" /\ opts.extractor_names = "multi")
        => outcome = ConfigError

\* the index values of every row of the long tables that merge_results
\* concatenates, with every index column rendered
LongKeys ==
    LET obj == IF opts.object_id = "auto" THEN "True" ELSE opts.object_id
        tim == IF opts.timing = "auto" THEN "True" ELSE opts.timing
        long(i) == to_df(results[i], tim, opts.metadata, "long", TRUE, obj).df
    IN UNION {{[c \in IndexColumns(long(i)) |-> Missing(long(i).rows[p][c])] :
                  p \in DOMAIN long(i).rows} : i \in DOMAIN results}

Restrict(f, S) == [c \in S |-> f[c]]

\* C3: in a wide merge no row is lost to a missing index value: every
\* distinct combination of index values of the concatenated long table,
\* missing ones included, is exactly one row of the wide table; no index cell
\* holds the placeholder, and every index column has the dtype it had before.
C3_WideKeepsRowsWithMissingIndex ==
    (outcome = "table" /\ opts.format = "wide") =>
        /\ Len(table.rows) = Cardinality(LongKeys)
        /\ {Restrict(table.rows[p], IndexColumns(table)) : p \in DOMAIN table.rows}
             = {Restrict(k, IndexColumns(table)) : k \in LongKeys}
        /\ \A p \in DOMAIN table.rows : \A c \in IndexColumns(table) :
              table.rows[p][c] # PlAcEholdER
        /\ \A c \in IndexColumns(table) :
              table.dtypes[c] = CASE c = C("object_id") -> "int64"
                                  [] c \in Range(TimingCols) -> "float64"
                                  [] OTHER -> "object"

\* a wide table that holds a row of missing onset next to a row with an onset
C3_Witness ==
    /\ outcome = "table" /\ opts.format = "wide" /\ opts.timing = "True"
    /\ \E p, q \in DOMAIN table.rows :
          /\ isnull(table.rows[p][C("onset")])
          /\ ~isnull(table.rows[q][C("onset")])

\* the feature names of a returned table
FeatureNames(d) ==
    IF opts.format = "wide" THEN FeatureColumns(d)
    ELSE {d.rows[p][C("feature")].s : p \in DOMAIN d.rows}

\* the values a returned table holds under the feature name f
FeatureValues(d, f) ==
    IF opts.format = "wide"
    THEN {d.rows[p][f] : p \in DOMAIN d.rows} \ {NaN}
    ELSE {d.rows[p][C("value")] :
             p \in {q \in DOMAIN d.rows : d.rows[q][C("feature")].s = f}}

\* the values the Results of extractor e hold under their feature f
ExtractorValues(e, f) ==
    UNION {{results[i].data[p][IndexOf(Features(results[i]), f)] :
               p \in DOMAIN results[i].data} :
           i \in {j \in DOMAIN results : /\ results[j].extractor = e
                                         /\ f \in Range(Features(results[j]))}}

\* C4: with extractor_names 'prepend' (or True) the feature names of the
\* merged table are exactly the '<extractor>#<feature>' names of the Results,
\* none un-prefixed, and the values under '<extractor>#<feature>' are values
\* of that extractor alone: two extractors never share a feature column.
C4_PrependSeparatesExtractors ==
    (outcome = "table" /\ names_mode = "prepend") =>
        /\ FeatureNames(table) =
              UNION {{results[i].extractor \o f : f \in Range(Features(results[i]))} :
                        i \in DOMAIN results}
        /\ \A i \in DOMAIN results : \A f \in Range(Features(results[i])) :
              FeatureValues(table, results[i].extractor \o f)
                  \subseteq ExtractorValues(results[i].extractor, f)

\* extractors A and B both gave 'score' for the same stim, and the wide table
\* holds the two scores side by side in one row
C4_Witness ==
    /\ outcome = "table" /\ names_mode = "prepend" /\ opts.format = "wide"
    /\ {<<"A", "score">>, <<"B", "score">>} \subseteq Range(table.columns)
    /\ \E p \in DOMAIN table.rows :
          /\ table.rows[p][<<"A", "score">>] = Num(1)
          /\ table.rows[p][<<"B", "score">>] = Num(2)

\* -1, 0 or 1 as cell a sorts before, with or after cell b: numbers
\* ascending, a missing value after every number
Cmp(a, b) ==
    IF isnull(a) /\ isnull(b) THEN 0
    ELSE IF isnull(a) THEN 1
    ELSE IF isnull(b) THEN -1
    ELSE IF a.n * b.d < b.n * a.d THEN -1
    ELSE IF a.n * b.d = b.n * a.d THEN 0
    ELSE 1

\* (onset, order, duration) of row a is not after that of row b
NotAfter(a, b) ==
    LET c1 == Cmp(a[C("onset")], b[C("onset")])
        c2 == Cmp(a[C("order")], b[C("order")])
        c3 == Cmp(a[C("duration")], b[C("duration")])
    IN c1 < 0 \/ (c1 = 0 /\ (c2 < 0 \/ (c2 = 0 /\ c3 <= 0)))

\* C5: a returned table that has an onset column is in ascending order of
\* (onset, order, duration), missing values last, and its rows are numbered
\* 0 .. n-1, whatever the order of the Results, the format and the
\* extractor_names mode.
C5_SortedByTiming ==
    (outcome = "table" /\ C("onset") \in Range(table.columns)) =>
        /\ \A p, q \in DOMAIN table.rows :
              p < q => NotAfter(table.rows[p], table.rows[q])
        /\ table.index = [p \in DOMAIN table.rows |-> p - 1]

\* the Results came with descending onsets and the table has them ascending
C5_Witness ==
    /\ outcome = "table" /\ Len(results) = 2
    /\ results[1].onsets = <<Num(2)>> /\ results[2].onsets = <<Num(1)>>
    /\ C("onset") \in Range(table.columns)
    /\ table.rows[1][C("onset")] = Num(1)
    /\ table.rows[Len(table.rows)][C("onset")] = Num(2)

\* results[1].to_df in wide format with the options of the merge
Direct ==
    to_df(results[1], opts.timing, opts.metadata, "wide", FALSE,
          opts.object_id).df

\* the name the merged table gives feature f of the single Result
MergedName(f) ==
    IF names_mode \in {"prepend", "multi"} THEN results[1].extractor \o f ELSE f

\* the wide tables m (merged) and d (direct) hold the same rows: the same
\* index columns, the same features, the same number of rows, and every row
\* of d as often in m as in d
SameRows(m, d) ==
    LET drow(q) == [c \in Range(d.columns) |-> Missing(d.rows[q][c])]
        mrow(q) == [c \in Range(d.columns) |->
                       Missing(m.rows[q][IF c \in IndCols THEN c
                                         ELSE MergedName(c)])]
    IN /\ Len(m.rows) = Len(d.rows)
       /\ IndexColumns(m) = IndexColumns(d)
       /\ FeatureColumns(m) = {MergedName(f) : f \in FeatureColumns(d)}
       /\ \A p \in DOMAIN d.rows :
             Cardinality({q \in DOMAIN d.rows : drow(q) = drow(p)})
                 = Cardinality({q \in DOMAIN m.rows : mrow(q) = drow(p)})

\* no two rows of d agree on every index column
DistinctIndex(d) ==
    \A p, q \in DOMAIN d.rows :
        p # q => Restrict(d.rows[p], IndexColumns(d))
                     # Restrict(d.rows[q], IndexColumns(d))

SameRowsShared(m, d) ==
    LET shared == (IndexColumns(m) \cap IndexColumns(d)) \cup FeatureColumns(d)
        drow(q) == [c \in shared |-> Missing(d.rows[q][c])]
        mrow(q) == [c \in shared |->
                       Missing(m.rows[q][IF c \in IndCols THEN c
                                         ELSE MergedName(c)])]
    IN /\ Len(m.rows) = Len(d.rows)
       /\ FeatureColumns(m) = {MergedName(f) : f \in FeatureColumns(d)}
       /\ \A p \in DOMAIN d.rows :
             Cardinality({q \in DOMAIN d.rows : drow(q) = drow(p)})
                 = Cardinality({q \in DOMAIN m.rows : mrow(q) = drow(p)})

Label(c) ==
    IF df.extractor_name /\ opts.format = "wide"
    THEN results[df.i].extractor \o c ELSE c

HasObjectId == Label(C("object_id")) \in Range(df.df.columns)

\* the running counter that to_df would insert as object_id
Counter(r) == object_ids(Len(r.data), index_key(r))

\* C7: with object_id='auto', to_df inserts the object_id column exactly
\* when the running counter takes several values: an inserted column holds
\* more than one distinct value, and a skipped one would have been constant.
C7_AutoObjectIdNonConstant ==
    (Rendered /\ df.ok /\ opts.object_id = "auto") =>
        /\ HasObjectId =>
              Cardinality({df.df.rows[p][Label(C("object_id"))] :
                              p \in DOMAIN df.df.rows}) > 1
        /\ HasObjectId <=> Cardinality(Range(Counter(results[df.i]))) > 1

\* all rows of r share one (onset, duration) pair
SamePair(r) ==
    \A i, j \in DOMAIN r.data :
        /\ At(r.onsets, i) = At(r.onsets, j)
        /\ At(r.durations, i) = At(r.durations, j)

C9_SameArgumentsSameTable ==
    pc = "again" => (outcome2 = outcome /\ table2 = table)

\* some onset, order or duration of the Results is not missing
SomeTiming ==
    \E i \in DOMAIN results :
        \E v \in Range(results[i].onsets) \cup Range(results[i].orders)
                   \cup Range(results[i].durations) : ~isnull(v)

\* C10: with timing='auto', merge_results keeps the onset, order and
\* duration columns whenever any onset, order or duration is not missing.
C10_AutoTimingKeepsData ==
    (outcome = "table" /\ opts.timing = "auto" /\ SomeTiming)
        => Range(TimingCols) \subseteq Range(table.columns)

====
